---- MODULE Spec2Model ----
(***************************************************************************)
(* Transaction preparation and status tracking of the USDCx bridge:        *)
(* address codecs (helpers), amount conversion, prepareDepositTransaction, *)
(* prepareWithdrawalTransaction, the tool handlers in front of them, and   *)
(* the two status trackers.                                                *)
(***************************************************************************)
EXTENDS Integers, Sequences, FiniteSets, TLC

(***************************************************************************)
(* Natural numbers wider than a machine integer are big-endian sequences   *)
(* of 12-bit limbs; the 53-bit significands of the IEEE-754 doubles that   *)
(* parseFloat, `*` and Math.floor compute with are bit sequences.          *)
(***************************************************************************)
LimbBits == 12
LimbBase == 4096
MantBits == 53

Zeros(n) == [i \in 1..n |-> 0]

Drop(s, n) == SubSeq(s, n + 1, Len(s))

RECURSIVE NatLimbs(_)
NatLimbs(n) == IF n = 0 THEN <<>>
               ELSE NatLimbs(n \div LimbBase) \o <<n % LimbBase>>

\* b * k + c, halves at a time: the limbs of the same length and the carry out
RECURSIVE MulAdd(_, _, _)
MulAdd(b, k, c) ==
    IF Len(b) = 0 THEN [limbs |-> <<>>, carry |-> c]
    ELSE IF Len(b) = 1
    THEN [limbs |-> <<(b[1] * k + c) % LimbBase>>, carry |-> (b[1] * k + c) \div LimbBase]
    ELSE LET h    == Len(b) \div 2
             low  == MulAdd(SubSeq(b, h + 1, Len(b)), k, c)
             high == MulAdd(SubSeq(b, 1, h), k, low.carry)
         IN  [limbs |-> high.limbs \o low.limbs, carry |-> high.carry]

WithCarry(r) == NatLimbs(r.carry) \o r.limbs

\* b * k + c for a small k and c
BigMulAdd(b, k, c) == WithCarry(MulAdd(b, k, c))

\* quotient and remainder of rem * LimbBase^Len(b) + b by a small d, halves at a time
RECURSIVE DivStep(_, _, _)
DivStep(b, d, rem) ==
    IF Len(b) = 0 THEN [q |-> <<>>, r |-> rem]
    ELSE IF Len(b) = 1
    THEN [q |-> <<(rem * LimbBase + b[1]) \div d>>, r |-> (rem * LimbBase + b[1]) % d]
    ELSE LET h     == Len(b) \div 2
             left  == DivStep(SubSeq(b, 1, h), d, rem)
             right == DivStep(SubSeq(b, h + 1, Len(b)), d, left.r)
         IN  [q |-> left.q \o right.q, r |-> right.r]

\* quotient and remainder of b by a small d
BigDivSmall(b, d) == DivStep(b, d, 0)

\* floor(b / 10^k), and whether anything was cut off; five digits a step
RECURSIVE DivPow10(_, _, _)
DivPow10(b, k, sticky) ==
    IF k = 0 THEN [q |-> b, sticky |-> sticky]
    ELSE LET n == IF k < 5 THEN k ELSE 5
             s == BigDivSmall(b, 10 ^ n)
         IN  IF s.r = 0 THEN DivPow10(s.q, k - n, sticky)
             ELSE DivPow10(s.q, k - n, TRUE)

\* the bits of a limb sequence, most significant first, leading zeros cut
LimbsToBits(b) ==
    LET all  == [i \in 1..(LimbBits * Len(b)) |->
                   (b[((i - 1) \div LimbBits) + 1]
                      \div (2 ^ (LimbBits - 1 - ((i - 1) % LimbBits)))) % 2]
        ones == {i \in 1..Len(all) : all[i] = 1}
    IN  IF ones = {} THEN <<>>
        ELSE Drop(all, (CHOOSE i \in ones : \A j \in ones : i <= j) - 1)

\* the value of a short bit sequence
RECURSIVE BitsToNat(_)
BitsToNat(b) ==
    IF Len(b) = 0 THEN 0
    ELSE IF Len(b) = 1 THEN b[1]
    ELSE LET h == Len(b) \div 2
         IN  BitsToNat(SubSeq(b, 1, h)) * (2 ^ (Len(b) - h))
               + BitsToNat(SubSeq(b, h + 1, Len(b)))

\* the limbs of a bit sequence
BitsToLimbs(b) ==
    LET n   == (Len(b) + LimbBits - 1) \div LimbBits
        pad == Zeros(n * LimbBits - Len(b)) \o b
    IN  [j \in 1..n |-> BitsToNat(SubSeq(pad, (j - 1) * LimbBits + 1, j * LimbBits))]

\* b + 1 on a fixed width; all ones wraps to all zeros
BigInc(b) ==
    LET zs == {i \in 1..Len(b) : b[i] = 0}
    IN  IF zs = {} THEN Zeros(Len(b))
        ELSE LET p == CHOOSE i \in zs : \A j \in zs : j <= i
             IN  [i \in 1..Len(b) |-> IF i < p THEN b[i] ELSE IF i = p THEN 1 ELSE 0]

(***************************************************************************)
(* Round a positive bit sequence b (times 2^e, with `sticky` telling that  *)
(* non-zero bits below b were already cut) to a 53-bit significand, to     *)
(* nearest, ties to even: the rounding of every IEEE-754 operation.        *)
(***************************************************************************)
RoundDouble(b, e, sticky) ==
    LET L == Len(b) IN
    IF L <= MantBits
    THEN [m |-> b \o Zeros(MantBits - L), e |-> e - (MantBits - L)]
    ELSE LET top   == SubSeq(b, 1, MantBits)
             guard == b[MantBits + 1]
             rest  == sticky \/ \E i \in (MantBits + 2)..L : b[i] = 1
             up    == guard = 1 /\ (rest \/ top[MantBits] = 1)
             inc   == BigInc(top)
         IN  IF ~up THEN [m |-> top, e |-> e + (L - MantBits)]
             ELSE IF inc[1] = 0
                  THEN [m |-> <<1>> \o Zeros(MantBits - 1), e |-> e + (L - MantBits) + 1]
                  ELSE [m |-> inc, e |-> e + (L - MantBits)]

\* the outcome of a call that may throw
Ok(v) == [ok |-> TRUE, v |-> v]
Err(e) == [ok |-> FALSE, err |-> e]

NaN == [k |-> "nan"]
Num(n) == [k |-> "int", v |-> n]
DZero == [k |-> "num", neg |-> FALSE, m |-> <<>>, e |-> 0]

IsDigit(c) == c \in {"0", "1", "2", "3", "4", "5", "6", "7", "8", "9"}

DigitVal(c) == CASE c = "0" -> 0 [] c = "1" -> 1 [] c = "2" -> 2 [] c = "3" -> 3
                 [] c = "4" -> 4 [] c = "5" -> 5 [] c = "6" -> 6 [] c = "7" -> 7
                 [] c = "8" -> 8 [] c = "9" -> 9

\* the value of at most five decimal digits
ShortDigitsToNat(ds) ==
    LET p == [i \in 1..5 |-> IF i <= 5 - Len(ds) THEN 0
                             ELSE DigitVal(ds[i - (5 - Len(ds))])]
    IN  p[1] * 10000 + p[2] * 1000 + p[3] * 100 + p[4] * 10 + p[5]

\* acc followed by the decimal digits ds, five digits a step
RECURSIVE DigitsToBig(_, _)
DigitsToBig(ds, acc) ==
    IF ds = <<>> THEN acc
    ELSE LET n    == IF Len(ds) < 5 THEN Len(ds) ELSE 5
             next == BigMulAdd(acc, 10 ^ n, ShortDigitsToNat(SubSeq(ds, 1, n)))
         IN  IF Len(ds) = n THEN next ELSE DigitsToBig(Drop(ds, n), next)

\* limbs of extra precision that a division by 10^k is given
Shift(k) == 5 + (k + 2) \div 3

Double(neg, r) == [k |-> "num", neg |-> neg, m |-> r.m, e |-> r.e]

QuotientToDouble(neg, d, s) ==
    Double(neg, RoundDouble(LimbsToBits(d.q), 0 - s * LimbBits, d.sticky))

\* the double nearest to n / 10^k
RatioToDouble(neg, n, k) ==
    IF \A i \in 1..Len(n) : n[i] = 0 THEN [DZero EXCEPT !.neg = neg]
    ELSE QuotientToDouble(neg, DivPow10(n \o Zeros(Shift(k)), k, FALSE), Shift(k))

\* the double nearest to the decimal  int.frac
DecToDouble(neg, int, frac) == RatioToDouble(neg, DigitsToBig(int \o frac, <<>>), Len(frac))

\* the leading run of decimal digits of s
DigitRun(s) ==
    LET other == {i \in 1..Len(s) : ~IsDigit(s[i])}
    IN  IF other = {} THEN s
        ELSE SubSeq(s, 1, (CHOOSE i \in other : \A j \in other : i <= j) - 1)

(***************************************************************************)
(* parseFloat: the longest prefix that is a decimal literal (sign, digits, *)
(* a point, digits), as a double; NaN when there is none.                  *)
(***************************************************************************)
Unsigned(str) == IF str # <<>> /\ Head(str) \in {"-", "+"} THEN Tail(str) ELSE str

\* the digits after a leading point of s
FractionDigits(s) == IF s # <<>> /\ Head(s) = "." THEN DigitRun(Tail(s)) ELSE <<>>

LiteralToDouble(neg, int, frac) ==
    IF int = <<>> /\ frac = <<>> THEN NaN ELSE DecToDouble(neg, int, frac)

parseFloat(str) ==
    LiteralToDouble(str # <<>> /\ Head(str) = "-",
                    DigitRun(Unsigned(str)),
                    FractionDigits(Drop(Unsigned(str), Len(DigitRun(Unsigned(str))))))

\* the double product a * 1e6; 1e6 is the double 15625 * 2^6
TimesMillion(a) ==
    IF a.k = "nan" \/ a.m = <<>> THEN a
    ELSE LET p == LimbsToBits(BigMulAdd(BitsToLimbs(a.m), 15625, 0))
             r == RoundDouble(p, a.e + 6, FALSE)
         IN  [a EXCEPT !.m = r.m, !.e = r.e]

\* Math.floor of a double: NaN, or an integer
MathFloor(a) ==
    IF a.k = "nan" THEN NaN
    ELSE IF a.m = <<>> THEN Num(0)
    ELSE LET keep  == MantBits + a.e
             whole == IF keep <= 0 THEN 0
                      ELSE IF a.e >= 0 THEN BitsToNat(a.m \o Zeros(a.e))
                      ELSE BitsToNat(SubSeq(a.m, 1, keep))
             exact == a.e >= 0 \/
                      (keep > 0 /\ \A i \in (keep + 1)..MantBits : a.m[i] = 0)
         IN  IF ~a.neg THEN Num(whole)
             ELSE IF exact THEN Num(0 - whole) ELSE Num(0 - whole - 1)

\* a < b on doubles: false when either is NaN
BitsLess(x, y) ==
    LET differ == {i \in 1..Len(x) : x[i] # y[i]}
    IN  differ # {} /\ LET first == CHOOSE i \in differ : \A j \in differ : i <= j
                       IN  x[first] < y[first]

MagLess(a, b) ==
    IF b.m = <<>> THEN FALSE
    ELSE IF a.m = <<>> THEN TRUE
    ELSE IF a.e # b.e THEN a.e < b.e
    ELSE BitsLess(a.m, b.m)

DoubleLess(a, b) ==
    IF a.k = "nan" \/ b.k = "nan" THEN FALSE
    ELSE IF a.m = <<>> /\ b.m = <<>> THEN FALSE
    ELSE IF a.neg /\ ~b.neg THEN TRUE
    ELSE IF ~a.neg /\ b.neg THEN FALSE
    ELSE IF a.neg THEN MagLess(b, a)
    ELSE MagLess(a, b)

(***************************************************************************)
(* viem parseUnits(value, 6): exact on the decimal digits; a fraction of   *)
(* more than 6 digits is rounded (Math.round of the 6th digit and the rest *)
(* read as a double), not rejected.                                        *)
(***************************************************************************)
Decimals == 6

RECURSIVE DigitsToNat(_)
DigitsToNat(ds) ==
    IF ds = <<>> THEN 0
    ELSE 10 * DigitsToNat(SubSeq(ds, 1, Len(ds) - 1)) + DigitVal(ds[Len(ds)])

\* fraction.replace(/(0+)$/, '')
TrimZeros(ds) ==
    LET kept == {i \in 1..Len(ds) : ds[i] # "0"}
    IN  IF kept = {} THEN <<>>
        ELSE SubSeq(ds, 1, CHOOSE i \in kept : \A j \in kept : j <= i)

\* Math.round(Number(`${unit}.${right}`))
RoundUnit(unit, right) ==
    IF DoubleLess(DecToDouble(FALSE, <<unit>>, right), DecToDouble(FALSE, <<unit>>, <<"5">>))
    THEN DigitVal(unit) ELSE DigitVal(unit) + 1

\* the fraction digits as units of 10^-Decimals
FractionUnits(frac) ==
    IF Len(frac) > Decimals
    THEN DigitsToNat(SubSeq(frac, 1, Decimals - 1)) * 10
           + RoundUnit(frac[Decimals], Drop(frac, Decimals))
    ELSE DigitsToNat(frac) * (10 ^ (Decimals - Len(frac)))

Signed(neg, magnitude) == IF neg THEN 0 - magnitude ELSE magnitude

UnitsOfDigits(neg, int, frac) ==
    Ok(Signed(neg, DigitsToNat(int) * (10 ^ Decimals) + FractionUnits(frac)))

\* rest is what follows the integer digits: nothing, or a point and digits
UnitsOfSplit(neg, int, rest) ==
    IF rest # <<>> /\ (Head(rest) # "." \/ Len(DigitRun(Tail(rest))) # Len(rest) - 1)
    THEN Err("InvalidDecimalNumberError")
    ELSE UnitsOfDigits(neg, int, TrimZeros(FractionDigits(rest)))

\* integer.slice(1) of a negative value
Magnitude(value) == IF value # <<>> /\ Head(value) = "-" THEN Tail(value) ELSE value

parseUnits(value) ==
    UnitsOfSplit(value # <<>> /\ Head(value) = "-",
                 DigitRun(Magnitude(value)),
                 Drop(Magnitude(value), Len(DigitRun(Magnitude(value)))))

(***************************************************************************)
(* toMicroUSDC (helpers): parseFloat, then truncation of the double        *)
(* product; only NaN and non-positive values are refused.                  *)
(***************************************************************************)
FloorMicro(parsed) ==
    IF parsed.k = "nan" \/ ~DoubleLess(DZero, parsed) THEN Err("Invalid amount")
    ELSE Ok(MathFloor(TimesMillion(parsed)).v)

toMicroUSDC(amount) == FloorMicro(parseFloat(amount))

(***************************************************************************)
(* Text is a sequence of one-character strings; bytes are 0..255.          *)
(***************************************************************************)
LowerLetters == <<"a", "b", "c", "d", "e", "f", "g", "h", "i", "j", "k", "l", "m",
                  "n", "o", "p", "q", "r", "s", "t", "u", "v", "w", "x", "y", "z">>
UpperLetters == <<"A", "B", "C", "D", "E", "F", "G", "H", "I", "J", "K", "L", "M",
                  "N", "O", "P", "Q", "R", "S", "T", "U", "V", "W", "X", "Y", "Z">>
HexDigits == <<"0", "1", "2", "3", "4", "5", "6", "7", "8", "9", "a", "b", "c", "d", "e", "f">>
c32 == <<"0", "1", "2", "3", "4", "5", "6", "7", "8", "9", "A", "B", "C", "D", "E", "F",
         "G", "H", "J", "K", "M", "N", "P", "Q", "R", "S", "T", "V", "W", "X", "Y", "Z">>

\* String.prototype.indexOf on an alphabet: 0-based, -1 when absent
IndexOf(alphabet, ch) ==
    IF \E i \in 1..Len(alphabet) : alphabet[i] = ch
    THEN (CHOOSE i \in 1..Len(alphabet) : alphabet[i] = ch) - 1
    ELSE -1

toUpperCase(ch) == IF IndexOf(LowerLetters, ch) >= 0
                   THEN UpperLetters[IndexOf(LowerLetters, ch) + 1] ELSE ch

toLowerCase(ch) == IF IndexOf(UpperLetters, ch) >= 0
                   THEN LowerLetters[IndexOf(UpperLetters, ch) + 1] ELSE ch

\* how many leading elements of s equal z
LeadingCount(s, z) ==
    LET other == {i \in 1..Len(s) : s[i] # z}
    IN  IF other = {} THEN Len(s)
        ELSE (CHOOSE i \in other : \A j \in other : i <= j) - 1

BytesToBits(bytes) ==
    [i \in 1..(8 * Len(bytes)) |->
        (bytes[((i - 1) \div 8) + 1] \div (2 ^ (7 - ((i - 1) % 8)))) % 2]

\* the values of the w-bit groups of a bit sequence, zero-extended on the left
Groups(bits, w) ==
    LET n   == (Len(bits) + w - 1) \div w
        pad == Zeros(n * w - Len(bits)) \o bits
    IN  [j \in 1..n |-> BitsToNat(SubSeq(pad, (j - 1) * w + 1, j * w))]

\* viem toHex / hex.encode: two lower-case digits per byte
BytesToHexDigits(bytes) ==
    [i \in 1..(2 * Len(bytes)) |->
        HexDigits[(IF i % 2 = 1 THEN bytes[(i + 1) \div 2] \div 16
                                ELSE bytes[i \div 2] % 16) + 1]]

toHex(bytes) == <<"0", "x">> \o BytesToHexDigits(bytes)

IsHexDigit(ch) == IndexOf(HexDigits, toLowerCase(ch)) >= 0

\* hex.decode / Cl.bufferFromHex: the bytes of an even run of hex digits
HexDigitsToBytes(ds) ==
    IF Len(ds) % 2 # 0 \/ \E i \in 1..Len(ds) : ~IsHexDigit(ds[i])
    THEN Err("hex string invalid")
    ELSE Ok([j \in 1..(Len(ds) \div 2) |->
               16 * IndexOf(HexDigits, toLowerCase(ds[2 * j - 1]))
                  + IndexOf(HexDigits, toLowerCase(ds[2 * j]))])

(***************************************************************************)
(* c32check, as @stacks/transactions createAddress / addressToString use   *)
(* it.  c32checksum is the first 4 bytes of a double SHA-256, which is not *)
(* computed here: the table holds its value for the payloads drawn below.  *)
(***************************************************************************)
Hash1 == <<109, 120, 222, 123, 6, 37, 223, 191, 193, 108,
           58, 138, 87, 53, 246, 220, 61, 195, 242, 206>>
HashZero == Zeros(20)
HashOnes == [i \in 1..20 |-> 255]
HashShort == SubSeq(Hash1, 1, 19)

c32checksum(version, data) ==
    CASE version = 26 /\ data = Hash1     -> <<53, 104, 126, 20>>
      [] version = 22 /\ data = HashZero  -> <<174, 109, 188, 232>>
      [] version = 20 /\ data = HashOnes  -> <<20, 110, 104, 79>>
      [] version = 26 /\ data = HashShort -> <<149, 246, 26, 116>>
      [] OTHER -> <<0, 0, 0, 0>>

c32normalize(s) ==
    [i \in 1..Len(s) |->
        LET u == toUpperCase(s[i])
        IN  IF u = "O" THEN "0" ELSE IF u \in {"L", "I"} THEN "1" ELSE u]

c32encode(bytes) ==
    LET digits == Groups(BytesToBits(bytes), 5)
        number == Drop(digits, LeadingCount(digits, 0))
    IN  [i \in 1..LeadingCount(bytes, 0) |-> "0"]
          \o [i \in 1..Len(number) |-> c32[number[i] + 1]]

c32decode(s) ==
    LET vals   == [i \in 1..Len(s) |-> IndexOf(c32, s[i])]
        bits   == [i \in 1..(5 * Len(s)) |->
                     (vals[((i - 1) \div 5) + 1] \div (2 ^ (4 - ((i - 1) % 5)))) % 2]
        number == Drop(bits, LeadingCount(bits, 0))
    IN  Zeros(LeadingCount(s, "0")) \o Groups(number, 8)

\* the version and the payload of a decoded c32check string, checksum checked
Unchecked(version, data) ==
    IF Len(data) < 4
         \/ c32checksum(version, SubSeq(data, 1, Len(data) - 4)) # Drop(data, Len(data) - 4)
    THEN Err("Invalid c32check string: checksum mismatch")
    ELSE Ok([version |-> version,
             hash160 |-> BytesToHexDigits(SubSeq(data, 1, Len(data) - 4))])

Normalized(s) ==
    IF \E i \in 1..Len(s) : IndexOf(c32, s[i]) < 0 THEN Err("Not a c32-encoded string")
    ELSE Unchecked(IndexOf(c32, s[1]), c32decode(Tail(s)))

c32checkDecode(c32data) == Normalized(c32normalize(c32data))

\* createAddress = c32addressDecode: {version, hash160 (hex)} or a throw
createAddress(value) ==
    IF Len(value) <= 5 THEN Err("Invalid c32 address: invalid length")
    ELSE IF value[1] # "S" THEN Err("Invalid c32 address: must start with S")
    ELSE c32checkDecode(Tail(value))

c32address(version, hash) ==
    IF ~hash.ok THEN Err("Invalid argument: not a hash160 hex string")
    ELSE IF version \notin 0..31 THEN Err("Invalid version (must be between 0 and 31)")
    ELSE Ok(<<"S", c32[version + 1]>> \o c32encode(hash.v \o c32checksum(version, hash.v)))

\* addressToString = c32address(version, hash160)
addressToString(address) ==
    IF Len(address.hash160) # 40 THEN Err("Invalid argument: not a hash160 hex string")
    ELSE c32address(address.version, HexDigitsToBytes(address.hash160))

(***************************************************************************)
(* helpers: the address codecs of the repository.                          *)
(***************************************************************************)

\* a call that follows one that may throw
Then(r, f(_)) == IF r.ok THEN f(r.v) ELSE r

\* an encodeStream that writes the version before the padding
WriteVersionFirst(version, hash) ==
    IF Len(hash) # 20 THEN Err("Wrong length")
    ELSE Ok(<<version>> \o Zeros(11) \o hash)

\* P.bytes(11), P.U8, P.bytes(20): 11 zero bytes, the version, the 20 hash bytes
WriteAddress(version, hash) ==
    IF Len(hash) # 20 THEN Err("Wrong length")
    ELSE Ok(Zeros(11) \o <<version>> \o hash)

encodeStream(address) ==
    Then(HexDigitsToBytes(address.hash160), LAMBDA hash : WriteAddress(address.version, hash))

remoteRecipientCoderEncode(value) == Then(createAddress(value), encodeStream)

\* a decodeStream that skips one byte too few
remoteRecipientCoderDecodeSkip10(bytes) ==
    IF Len(bytes) # 32 THEN Err("Wrong length")
    ELSE addressToString([hash160 |-> BytesToHexDigits(SubSeq(bytes, 12, 31)),
                          version |-> bytes[11]])

\* remoteRecipientCoder.decodeStream: skip 11, read the version, read 20
remoteRecipientCoderDecode(bytes) ==
    IF Len(bytes) # 32 THEN Err("Wrong length")
    ELSE addressToString([hash160 |-> BytesToHexDigits(SubSeq(bytes, 13, 32)),
                          version |-> bytes[12]])

\* String.prototype.replace('0x', ''): the first occurrence only
Remove0x(s) ==
    LET at == {i \in 1..(Len(s) - 1) : s[i] = "0" /\ s[i + 1] = "x"}
    IN  IF at = {} THEN s
        ELSE LET p == CHOOSE i \in at : \A j \in at : i <= j
             IN  SubSeq(s, 1, p - 1) \o Drop(s, p + 1)

\* viem pad(bytes, {size}): zero bytes in front (dir defaults to left)
padBytes(bytes, size) ==
    IF Len(bytes) > size THEN Err("SizeExceedsPaddingSizeError")
    ELSE Ok(Zeros(size - Len(bytes)) \o bytes)

\* a pad in the other direction: String.prototype.padEnd
PadEnd(digits, size) ==
    IF Len(digits) > 2 * size THEN Err("SizeExceedsPaddingSizeError")
    ELSE Ok(<<"0", "x">> \o digits \o [i \in 1..(2 * size - Len(digits)) |-> "0"])

\* String.prototype.padStart(2 * size, '0') on the digits
PadStart(digits, size) ==
    IF Len(digits) > 2 * size THEN Err("SizeExceedsPaddingSizeError")
    ELSE Ok(<<"0", "x">> \o [i \in 1..(2 * size - Len(digits)) |-> "0"] \o digits)

\* viem pad(hex, {size})
padHex(hex, size) == PadStart(Remove0x(hex), size)

bytes32FromBytes(bytes) == Then(padBytes(bytes, 32), LAMBDA padded : Ok(toHex(padded)))

encodeStacksAddress(stacksAddress) ==
    Then(remoteRecipientCoderEncode(stacksAddress), bytes32FromBytes)

padEthereumAddress(ethereumAddress) ==
    padHex(<<"0", "x">> \o Remove0x(ethereumAddress), 32)

isValidStacksAddress(address) == createAddress(address).ok

\* /^0x[a-fA-F0-9]{40}$/
isValidEthereumAddress(address) ==
    /\ Len(address) = 42
    /\ SubSeq(address, 1, 2) = <<"0", "x">>
    /\ \A i \in 3..42 : IsHexDigit(address[i])

(***************************************************************************)
(* The inputs the handlers are called with.                                *)
(***************************************************************************)
AmountInputs ==
    {<<"5", ".", "0", "0">>,
     <<"4", ".", "8", "0">>,
     <<"4", ".", "8">>,
     <<"4", ".", "7", "9">>,
     <<"4", ".", "7", "9", "9", "9", "9", "9">>,
     <<"4", ".", "7", "9", "9", "9", "9", "9", "9">>,
     <<"4", ".", "7", "9", "9", "9", "9", "9", "9", "9", "9", "9", "9", "9", "9", "9", "9", "9">>,
     <<"1">>,
     <<"1", ".", "0">>,
     <<"0", ".", "9", "9", "9", "9", "9", "9">>,
     <<"0", ".", "9", "9", "9", "9", "9", "9", "9">>,
     <<"0", ".", "9", "9", "9", "9", "9", "9", "9", "9", "9", "9", "9", "9", "9", "9", "9", "9", "9">>,
     <<"1", ".", "1", "2", "3", "4", "5", "6">>,
     <<"1", ".", "1", "2", "3", "4", "5", "6", "7">>,
     <<"8", ".", "2">>,
     <<"1", "0", ".", "5">>,
     <<"0", ".", "5">>,
     <<>>,
     <<".">>,
     <<"a", "b", "c">>,
     <<"-", "5">>,
     <<"5", "x">>}

StacksDeployer ==
    <<"S", "T", "1", "P", "Q", "H", "Q", "K", "V", "0", "R", "J", "X", "Z", "F", "Y", "1", "D", "G", "X",
      "8", "M", "N", "S", "N", "Y", "V", "E", "3", "V", "G", "Z", "J", "S", "R", "T", "P", "G", "Z", "G",
      "M">>
StacksBurn ==
    <<"S", "P", "0", "0", "0", "0", "0", "0", "0", "0", "0", "0", "0", "0", "0", "0", "0", "0", "0", "0",
      "0", "0", "2", "Q", "6", "V", "F", "7", "8">>
StacksOnes ==
    <<"S", "M", "3", "Z", "Z", "Z", "Z", "Z", "Z", "Z", "Z", "Z", "Z", "Z", "Z", "Z", "Z", "Z", "Z", "Z",
      "Z", "Z", "Z", "Z", "Z", "Z", "Z", "Z", "Z", "Z", "Z", "Z", "Z", "Z", "W", "A", "6", "W", "T", "2",
      "F">>
\* a c32check string over a 19-byte payload: createAddress accepts it
StacksShort ==
    <<"S", "T", "6", "T", "Y", "6", "Y", "F", "C", "3", "2", "B", "Q", "X", "Z", "R", "5", "P", "3", "N",
      "2", "J", "Q", "6", "Q", "V", "D", "R", "F", "E", "3", "Y", "A", "A", "Z", "C", "6", "K", "M">>

\* the same address spelled in lower case, or with the letter O for the digit 0
LowerSpelling(address) ==
    <<address[1]>> \o [i \in 1..(Len(address) - 1) |-> toLowerCase(address[i + 1])]
AliasSpelling(address) ==
    [i \in 1..Len(address) |-> IF address[i] = "0" THEN "O" ELSE address[i]]

StacksAddressInputs ==
    {StacksDeployer, StacksBurn, StacksOnes, StacksShort,
     LowerSpelling(StacksDeployer), AliasSpelling(StacksBurn),
     [StacksDeployer EXCEPT ![Len(StacksDeployer)] = "N"],
     [StacksDeployer EXCEPT ![1] = "s"],
     <<"S", "T", "1", "P">>}

EthUsdc ==
    <<"0", "x", "1", "c", "7", "D", "4", "B", "1", "9", "6", "C", "b", "0", "C", "7", "B", "0", "1", "d",
      "7", "4", "3", "F", "b", "c", "6", "1", "1", "6", "a", "9", "0", "2", "3", "7", "9", "C", "7", "2",
      "3", "8">>
EthLower == [i \in 1..Len(EthUsdc) |-> toLowerCase(EthUsdc[i])]
EthZero == <<"0", "x">> \o [i \in 1..40 |-> "0"]
EthUpper == <<"0", "x">> \o [i \in 1..40 |-> "F"]

EthereumAddressInputs ==
    {EthUsdc, EthLower, EthZero, EthUpper,
     SubSeq(EthLower, 1, 41), Drop(EthLower, 2), [EthLower EXCEPT ![10] = "g"]}

(***************************************************************************)
(* viem isAddress (strict): the pattern, and a mixed-case address must     *)
(* carry its EIP-55 capitals.  keccak256 is not computed here: the table   *)
(* holds checksumAddress for the addresses drawn above.                    *)
(***************************************************************************)
checksumAddress(address) ==
    LET lower == [i \in 1..Len(address) |-> toLowerCase(address[i])]
    IN  CASE lower = EthLower -> EthUsdc
          [] lower = [i \in 1..Len(EthUpper) |-> toLowerCase(EthUpper[i])] ->
    <<"0", "x", "F", "F", "f", "F", "f", "F", "f", "f", "F", "F", "f", "f", "f", "F", "F", "f", "F", "F",
          "f", "F", "F", "F", "F", "F", "f", "f", "F", "F", "F", "f", "f", "f", "f", "F", "f", "F", "F", "F",
          "f", "F">>
          [] OTHER -> lower

isAddress(address) ==
    /\ isValidEthereumAddress(address)
    /\ \/ [i \in 1..Len(address) |-> toLowerCase(address[i])] = address
       \/ checksumAddress(address) = address

(***************************************************************************)
(* ethereum: prepareDepositTransaction.  The chain query port answers      *)
(* `allowance` to the allowance read and `gas` to the gas estimation; the  *)
(* result carries what was returned or thrown and the port calls made.     *)
(***************************************************************************)
STACKS_DOMAIN == 10003
XRESERVE_CONTRACT == "0x008888878f94C0d87defdf0B07f46B93C1934442"
USDC_CONTRACT == "0x1c7D4B196Cb0C7B01d743Fbc6116a902379C7238"

Undefined == [k |-> "undefined"]

DOne == DecToDouble(FALSE, <<"1">>, <<>>)
DMinWithdrawal == DecToDouble(FALSE, <<"4">>, <<"8", "0">>)

encodeFunctionData(functionName, args) == [functionName |-> functionName, args |-> args]

\* an approval of as much as the token allows
ApprovalTxUnlimited(value) ==
    [to |-> USDC_CONTRACT,
     data |-> encodeFunctionData("approve", <<XRESERVE_CONTRACT, 2147483647>>)]

ApprovalTx(value) ==
    [to |-> USDC_CONTRACT,
     data |-> encodeFunctionData("approve", <<XRESERVE_CONTRACT, value>>)]

\* an allowance equal to the amount counted as too small
RequiresApprovalInclusive(currentAllowance, value) == currentAllowance <= value

RequiresApproval(currentAllowance, value) == currentAllowance < value

DepositData(value, remoteRecipient) ==
    encodeFunctionData("depositToRemote",
                       <<value, STACKS_DOMAIN, remoteRecipient, USDC_CONTRACT, 0, <<"0", "x">> >>)

DepositTransactionData(value, remoteRecipient, requiresApproval, estimatedGas) ==
    [to               |-> XRESERVE_CONTRACT,
     data             |-> DepositData(value, remoteRecipient),
     value            |-> 0,
     estimatedGas     |-> estimatedGas,
     requiresApproval |-> requiresApproval,
     approvalTx       |-> IF requiresApproval THEN ApprovalTx(value) ELSE Undefined]

\* a preparation that falls back on a gas limit of its own
DepositWithDefaultGas(value, remoteRecipient, userAddress, allowance, gas) ==
    IF ~isAddress(userAddress) THEN [ret |-> Err("InvalidAddressError"), port |-> <<>>]
    ELSE IF ~allowance.ok THEN [ret |-> allowance, port |-> <<"readContract">>]
    ELSE [ret  |-> Ok(DepositTransactionData(value, remoteRecipient,
                                              RequiresApproval(allowance.v, value),
                                              IF gas.ok THEN gas.v ELSE 100000)),
          port |-> <<"readContract", "estimateGas">>]

\* from the allowance read on; the address argument is checked before the read
DepositWithPort(value, remoteRecipient, userAddress, allowance, gas) ==
    IF ~isAddress(userAddress) THEN [ret |-> Err("InvalidAddressError"), port |-> <<>>]
    ELSE IF ~allowance.ok THEN [ret |-> allowance, port |-> <<"readContract">>]
    ELSE IF ~gas.ok THEN [ret |-> gas, port |-> <<"readContract", "estimateGas">>]
    ELSE [ret  |-> Ok(DepositTransactionData(value, remoteRecipient,
                                              RequiresApproval(allowance.v, value), gas.v)),
          port |-> <<"readContract", "estimateGas">>]

DepositOf(value, remoteRecipient, userAddress, allowance, gas) ==
    IF ~value.ok THEN [ret |-> value, port |-> <<>>]
    ELSE IF ~remoteRecipient.ok THEN [ret |-> remoteRecipient, port |-> <<>>]
    ELSE DepositWithPort(value.v, remoteRecipient.v, userAddress, allowance, gas)

prepareDepositTransaction(amount, stacksRecipient, userAddress, allowance, gas) ==
    IF DoubleLess(parseFloat(amount), DOne)
    THEN [ret |-> Err("Minimum deposit is 1 USDC on testnet"), port |-> <<>>]
    ELSE DepositOf(parseUnits(amount), encodeStacksAddress(stacksRecipient),
                   userAddress, allowance, gas)

(***************************************************************************)
(* stacks: prepareWithdrawalTransaction.  It makes no port call.           *)
(***************************************************************************)
ETHEREUM_DOMAIN == 0
MIN_WITHDRAWAL == 4800000
STACKS_USDCX_CONTRACT == "ST1PQHQKV0RJXZFY1DGX8MNSNYVE3VGZJSRTPGZGM.usdcx-v1"
USDCX_TOKEN_CONTRACT == "ST1PQHQKV0RJXZFY1DGX8MNSNYVE3VGZJSRTPGZGM.usdcx"

MicroAmount(amount) == MathFloor(TimesMillion(parseFloat(amount)))

\* a post-condition that bounds the amount sent instead of fixing it
PostConditionLte(stacksAddress, microAmount) ==
    [principal |-> stacksAddress,
     condition |-> "lte",
     amount    |-> microAmount + 1,
     asset     |-> <<USDCX_TOKEN_CONTRACT, "usdcx-token">>]

PostCondition(stacksAddress, microAmount) ==
    [principal |-> stacksAddress,
     condition |-> "eq",
     amount    |-> microAmount,
     asset     |-> <<USDCX_TOKEN_CONTRACT, "usdcx-token">>]

BurnArgs(microAmount, buffer) ==
    <<[type |-> "uint", value |-> microAmount],
      [type |-> "uint", value |-> ETHEREUM_DOMAIN],
      [type |-> "buffer", value |-> buffer]>>

WithdrawalTransactionData(microAmount, buffer, stacksAddress) ==
    [contractAddress |-> "ST1PQHQKV0RJXZFY1DGX8MNSNYVE3VGZJSRTPGZGM",
     contractName    |-> "usdcx-v1",
     functionName    |-> "burn",
     functionArgs    |-> BurnArgs(microAmount, buffer),
     postConditions  |-> <<PostCondition(stacksAddress, microAmount)>>,
     estimatedFee    |-> "0.01 STX"]

\* Cl.uint refuses a number that is not an integer; then Cl.bufferFromHex
WithdrawalTo(microAmount, paddedEthAddress, stacksAddress) ==
    IF ~paddedEthAddress.ok THEN paddedEthAddress
    ELSE IF microAmount.k # "int"
    THEN Err("Invalid value. Values of type 'number' must be an integer.")
    ELSE Then(HexDigitsToBytes(Drop(paddedEthAddress.v, 2)),
              LAMBDA buffer :
                  Ok(WithdrawalTransactionData(microAmount.v, buffer, stacksAddress)))

\* NaN is not less than the minimum
WithdrawalOf(microAmount, ethereumRecipient, stacksAddress) ==
    IF microAmount.k = "int" /\ microAmount.v < MIN_WITHDRAWAL
    THEN Err("Minimum withdrawal is 4.80 USDCx")
    ELSE WithdrawalTo(microAmount, padEthereumAddress(ethereumRecipient), stacksAddress)

prepareWithdrawalTransaction(amount, ethereumRecipient, stacksAddress) ==
    [ret  |-> WithdrawalOf(MicroAmount(amount), ethereumRecipient, stacksAddress),
     port |-> <<>>]

(***************************************************************************)
(* The tool handlers of the MCP servers in front of the two preparers: a   *)
(* thrown error is caught and returned as an error result.                 *)
(***************************************************************************)
prepareDepositTool(amount, stacksRecipient, userEthereumAddress, allowance, gas) ==
    IF ~isValidStacksAddress(stacksRecipient)
    THEN [ret |-> Err("Invalid Stacks address format"), port |-> <<>>]
    ELSE IF ~isValidEthereumAddress(userEthereumAddress)
    THEN [ret |-> Err("Invalid Ethereum address format"), port |-> <<>>]
    ELSE IF DoubleLess(parseFloat(amount), DOne)
    THEN [ret |-> Err("Minimum deposit is 1 USDC on testnet"), port |-> <<>>]
    ELSE prepareDepositTransaction(amount, stacksRecipient, userEthereumAddress,
                                   allowance, gas)

prepareWithdrawalTool(amount, ethereumRecipient, stacksAddress) ==
    IF ~isValidEthereumAddress(ethereumRecipient)
    THEN [ret |-> Err("Invalid Ethereum address format"), port |-> <<>>]
    ELSE IF ~isValidStacksAddress(stacksAddress)
    THEN [ret |-> Err("Invalid Stacks address format"), port |-> <<>>]
    ELSE IF DoubleLess(parseFloat(amount), DMinWithdrawal)
    THEN [ret |-> Err("Minimum withdrawal is 4.80 USDCx"), port |-> <<>>]
    ELSE prepareWithdrawalTransaction(amount, ethereumRecipient, stacksAddress)

\* the widget URL is built with JSON.stringify(txData); txData.value and
\* txData.estimatedGas are bigint, which JSON.stringify refuses
WidgetUrl(r) ==
    IF r.ret.ok THEN [ret |-> Err("Do not know how to serialize a BigInt"), port |-> r.port]
    ELSE r

\* handleMCPRequest, tools/call prepareDeposit, of the HTTP server
prepareDepositHttp(amount, stacksRecipient, userEthereumAddress, allowance, gas) ==
    IF amount = <<>> \/ stacksRecipient = <<>> \/ userEthereumAddress = <<>>
    THEN [ret |-> Err("Missing required parameters"), port |-> <<>>]
    ELSE IF ~isValidStacksAddress(stacksRecipient)
    THEN [ret |-> Err("Invalid Stacks address format"), port |-> <<>>]
    ELSE IF ~isValidEthereumAddress(userEthereumAddress)
    THEN [ret |-> Err("Invalid Ethereum address format"), port |-> <<>>]
    ELSE WidgetUrl(prepareDepositTransaction(amount, stacksRecipient,
                                             userEthereumAddress, allowance, gas))

(***************************************************************************)
(* The status trackers.  Each poll is one round of port answers.           *)
(***************************************************************************)
ETH_CONFIRMATIONS == 12
ETH_BLOCK_SECONDS == 12
STACKS_CONFIRMATIONS == 6
STACKS_BLOCK_MINUTES == 10

Eta(text, n) == [text |-> text, n |-> n]
NoEta == Eta("undefined", 0)

Status(state, confirmations, eta, errorMessage) ==
    [state |-> state, confirmations |-> confirmations,
     eta |-> eta, errorMessage |-> errorMessage]

\* a tracker that takes the confirmation threshold for completion
EthCompleted(confirmations) ==
    Status("completed", confirmations, Eta("Complete", 0), <<>>)

EthAttesting(confirmations) ==
    Status("attesting", confirmations,
           Eta("~15 minutes (attestation in progress)", 0), <<>>)

\* receipt: the answer to getTransactionReceipt; block: the answer to getBlockNumber
getEthereumTransactionStatus(receipt, block) ==
    LET confirmations == block.v - receipt.v.blockNumber
        pending == Status("pending", 0,
                          Eta("Waiting for transaction to be mined", 0), <<>>)
    IN  IF ~receipt.ok THEN [ret |-> Ok(pending), port |-> <<"getTransactionReceipt">>]
        ELSE IF receipt.v.status = "success"
        THEN IF ~block.ok
             THEN [ret |-> Ok(pending),
                   port |-> <<"getTransactionReceipt", "getBlockNumber">>]
             ELSE [ret |-> Ok(IF confirmations < ETH_CONFIRMATIONS
                              THEN Status("confirming", confirmations,
                                          Eta("seconds",
                                              (ETH_CONFIRMATIONS - confirmations)
                                                 * ETH_BLOCK_SECONDS),
                                          <<>>)
                              ELSE EthAttesting(confirmations)),
                   port |-> <<"getTransactionReceipt", "getBlockNumber">>]
        ELSE [ret |-> Ok(Status("failed", 0, NoEta, <<"Transaction failed on Ethereum">>)),
              port |-> <<"getTransactionReceipt">>]

\* an abort reported without its reason
StacksFailedSilent(repr) == Status("failed", 0, NoEta, <<>>)

StacksFailed(repr) ==
    Status("failed", 0, NoEta,
           <<"Transaction failed: ", IF repr = "" THEN "Unknown error" ELSE repr>>)

\* a tracker that reports attesting at the threshold only
StacksStateAtThreshold(confirmations) ==
    IF confirmations = STACKS_CONFIRMATIONS THEN "attesting" ELSE "confirming"

StacksState(confirmations) ==
    IF confirmations >= STACKS_CONFIRMATIONS THEN "attesting" ELSE "confirming"

(***************************************************************************)
(* record: the answer to the transaction lookup (a throw, a non-ok         *)
(* response, or the transaction's JSON); tip1 and tip2: the answers to the *)
(* two /v2/info reads.  The eta computed for a successful transaction is   *)
(* not part of the object returned; an error message is a sequence of its  *)
(* parts, empty when there is none.                                        *)
(***************************************************************************)
getStacksTransactionStatus(record, tip1, tip2) ==
    LET tx      == record.v
        failure == Status("pending", 0, NoEta, <<"Could not fetch transaction status">>)
        lookup  == <<"fetch tx">>
    IN  IF ~record.ok THEN [ret |-> Ok(failure), port |-> lookup]
        ELSE IF ~tx.ok
        THEN [ret |-> Ok(Status("pending", 0,
                                Eta("Waiting for transaction to be mined", 0),
                                <<>>)),
              port |-> lookup]
        ELSE IF tx.tx_status = "success"
        THEN IF tx.block_height # 0
             THEN IF ~tip1.ok
                  THEN [ret |-> Ok(failure), port |-> lookup \o <<"fetch info">>]
                  ELSE IF ~tip2.ok
                  THEN [ret |-> Ok(failure),
                        port |-> lookup \o <<"fetch info", "fetch info">>]
                  ELSE [ret |-> Ok(Status(StacksState(tip1.v - tx.block_height + 1),
                                          tip2.v - tx.block_height + 1,
                                          NoEta, <<>>)),
                        port |-> lookup \o <<"fetch info", "fetch info">>]
             ELSE [ret |-> Ok(Status("confirming", 0, NoEta, <<>>)),
                   port |-> lookup]
        ELSE IF tx.tx_status \in {"abort_by_response", "abort_by_post_condition"}
        THEN [ret |-> Ok(StacksFailed(tx.repr)), port |-> lookup]
        ELSE [ret |-> Ok(Status("pending", 0, Eta("Transaction pending", 0), <<>>)),
              port |-> lookup]

\* the checkStatus tool: the chain tag selects the tracker
checkStatus(chain, answers) ==
    IF chain = "ethereum"
    THEN getEthereumTransactionStatus(answers.receipt, answers.block)
    ELSE getStacksTransactionStatus(answers.record, answers.tip1, answers.tip2)

(***************************************************************************)
(* What the chain query port can answer.                                   *)
(***************************************************************************)
MaxHeight == 14
Heights == 0..MaxHeight

AllowanceAnswers ==
    {Err("rpc unavailable")} \cup {Ok(n) : n \in {0, 999999, 1000000, 1000001}}

\* the addresses a deposit or a withdrawal is asked for
RecipientInputs ==
    {StacksDeployer, StacksShort, [StacksDeployer EXCEPT ![Len(StacksDeployer)] = "N"]}
UserInputs == {EthUsdc, EthUpper, [EthLower EXCEPT ![10] = "g"]}

GasAnswers == {Err("execution reverted"), Ok(21000), Ok(85000)}

ReceiptAnswers ==
    {Err("TransactionReceiptNotFoundError")}
      \cup {Ok([status |-> s, blockNumber |-> b]) : s \in {"success", "reverted"}, b \in Heights}

HeightAnswers == {Err("rpc unavailable")} \cup {Ok(h) : h \in Heights}

\* block_height 0 stands for a record without a block height
RecordAnswers ==
    {Err("fetch failed"), Ok([ok |-> FALSE])}
      \cup {Ok([ok |-> TRUE, tx_status |-> "success", block_height |-> b, repr |-> ""]) :
              b \in Heights}
      \cup {Ok([ok |-> TRUE, tx_status |-> s, block_height |-> 0, repr |-> r]) :
              s \in {"abort_by_response", "abort_by_post_condition"},
              r \in {"", "(err u1)"}}
      \cup {Ok([ok |-> TRUE, tx_status |-> "pending", block_height |-> 0, repr |-> ""])}

StatusAnswers ==
    [chain : {"ethereum"}, receipt : ReceiptAnswers, block : HeightAnswers]
      \cup [chain : {"stacks"}, record : RecordAnswers,
            tip1 : HeightAnswers, tip2 : HeightAnswers]

(***************************************************************************)
(* The balance readers.  A balance is read from the chain as an integer of *)
(* minor units and returned as a decimal text.                             *)
(***************************************************************************)
Str(text) == [k |-> "string", v |-> text]

RECURSIVE TimesPow10(_, _)
TimesPow10(b, k) == IF k = 0 THEN b ELSE TimesPow10(BigMulAdd(b, 10, 0), k - 1)

RECURSIVE NatToDigits(_)
NatToDigits(n) ==
    IF n < 10 THEN <<HexDigits[n + 1]>>
    ELSE NatToDigits(n \div 10) \o <<HexDigits[(n % 10) + 1]>>

\* the integer n for which n / 10^digits is nearest to the magnitude of the
\* double a, the larger n of two
FixedUnits(a, digits) ==
    IF a.m = <<>> THEN 0
    ELSE LET p    == LimbsToBits(TimesPow10(BitsToLimbs(a.m), digits))
             keep == Len(p) + a.e
         IN  IF a.e >= 0 THEN BitsToNat(p \o Zeros(a.e))
             ELSE IF keep < 0 THEN 0
             ELSE BitsToNat(SubSeq(p, 1, keep)) + p[keep + 1]

\* Number.prototype.toFixed, for a magnitude below 1e21
toFixed(a, digits) ==
    LET ds     == NatToDigits(FixedUnits(a, digits))
        padded == [i \in 1..(digits + 1 - Len(ds)) |-> "0"] \o ds
        k      == Len(padded) - digits
        sign   == IF a.neg /\ a.m # <<>> THEN <<"-">> ELSE <<>>
    IN  IF digits = 0 THEN sign \o padded
        ELSE sign \o SubSeq(padded, 1, k) \o <<".">> \o SubSeq(padded, k + 1, Len(padded))

\* Number(n) / 1e6 for a bigint n below 2^53
DivMillion(n) == RatioToDouble(FALSE, NatLimbs(n), 6)

fromMicroUSDC(microAmount) == toFixed(DivMillion(microAmount), 6)

\* a reader from which the failure of the read escapes
getUSDCBalanceThrows(balance) ==
    [ret |-> IF ~balance.ok THEN balance ELSE Ok(toFixed(DivMillion(balance.v), 2)),
     port |-> <<"readContract">>]

\* balance: the answer to readContract balanceOf
getUSDCBalance(balance) ==
    [ret |-> IF ~balance.ok THEN Ok(<<"0", ".", "0", "0">>)
             ELSE Ok(toFixed(DivMillion(balance.v), 2)),
     port |-> <<"readContract">>]

\* the Clarity value printed: (ok u5), (err u1), none
cvToString(cv) ==
    IF cv.type = "none" THEN <<"n", "o", "n", "e">>
    ELSE <<"(">> \o (IF cv.type = "ok" THEN <<"o", "k">> ELSE <<"e", "r", "r">>)
           \o <<" ", "u">> \o NatToDigits(cv.value) \o <<")">>

\* BigInt(balanceValue.replace(/[^0-9]/g, '') || '0')
MicroBalance(balanceValue) == DigitsToNat(SelectSeq(balanceValue, IsDigit))

\* balanceCall: the answer to the read-only call of get-balance
getUSDCxBalance(balanceCall) ==
    [ret |-> IF ~balanceCall.ok THEN Ok(<<"0", ".", "0", "0", "0", "0", "0", "0">>)
             ELSE Ok(fromMicroUSDC(MicroBalance(cvToString(balanceCall.v)))),
     port |-> <<"fetchCallReadOnlyFunction">>]

\* nothing read
NotRead == [ret |-> Ok(Undefined), port |-> <<>>]

Boxed(r) == IF r.ret.ok THEN [r EXCEPT !.ret = Ok(Str(r.ret.v))] ELSE r

\* balances.usdc || '0.00' in a line printed when the address was given
Line(address, balance, zero) ==
    IF address = <<>> THEN Undefined
    ELSE IF balance.k = "undefined" \/ balance.v = <<>> THEN Str(zero)
    ELSE balance

\* the getBalances tool; usdc and usdcx are the answers of the two ports
getBalances(ethereumAddress, stacksAddress, usdc, usdcx) ==
    LET eth == IF ethereumAddress # <<>> /\ isValidEthereumAddress(ethereumAddress)
               THEN Boxed(getUSDCBalance(usdc)) ELSE NotRead
    IN  IF ~eth.ret.ok THEN eth
        ELSE LET stx == IF stacksAddress # <<>> /\ isValidStacksAddress(stacksAddress)
                        THEN Boxed(getUSDCxBalance(usdcx)) ELSE NotRead
             IN  IF ~stx.ret.ok THEN [ret |-> stx.ret, port |-> eth.port \o stx.port]
                 ELSE [ret |-> Ok([usdc |-> eth.ret.v, usdcx |-> stx.ret.v,
                                   text |-> <<Line(ethereumAddress, eth.ret.v,
                                                   <<"0", ".", "0", "0">>),
                                              Line(stacksAddress, stx.ret.v,
                                                   <<"0", ".", "0", "0", "0", "0", "0", "0">>)>>]),
                       port |-> eth.port \o stx.port]

\* 1005000 minor units are the double 1.00499999999999989..., 5000 the
\* double 0.005000000000000000104...
UsdcAnswers ==
    {Err("rpc unavailable")} \cup {Ok(n) : n \in {0, 1, 4999, 5000, 1005000, 5000000}}

UsdcxAnswers ==
    {Err("fetch failed"), Ok([type |-> "none"]), Ok([type |-> "err", value |-> 1])}
      \cup {Ok([type |-> "ok", value |-> n]) : n \in {0, 1, 4999, 1005000, 5000000}}

(***************************************************************************)
(* The state: the call handled last, what it returned (or threw), and the  *)
(* chain query port calls it made.  Every handler is stateless, so a step  *)
(* is one whole call.                                                      *)
(***************************************************************************)
VARIABLES call, ret, port

\* seen: the state a poller was reported at its previous poll.  The widgets
\* of the pages, the responses of POST /mcp and the page's transaction
\* trackers live apart from the handlers.
VARIABLES seen, statusWidget, depositWidget, mcp, tracker

pages == <<statusWidget, depositWidget, mcp, tracker>>

handlers == <<call, ret, port, seen>>

vars == <<call, ret, port, seen, statusWidget, depositWidget, mcp, tracker>>

Init ==
    /\ call = [op |-> "none"]
    /\ ret = Err("none")
    /\ port = <<>>
    /\ seen = "none"
    /\ statusWidget = [mounted |-> FALSE]
    /\ depositWidget = [mounted |-> FALSE]
    /\ mcp = <<>>
    /\ tracker = <<>>

Idle == call.op = "none"

\* a call is taken when the server is idle and handled in one step
Handled(c, r) ==
    /\ call' = c
    /\ ret' = r.ret
    /\ port' = r.port
    /\ UNCHANGED <<seen, pages>>

Pure(v) == [ret |-> v, port |-> <<>>]

\* a returned Hex text and a returned bigint, as the caller holds them
Hex(r) == Then(r, LAMBDA text : Ok([hex |-> text]))
BigInt(r) == Then(r, LAMBDA n : Ok([bigint |-> n]))

\* remoteRecipientCoder.decode(remoteRecipientCoder.encode(address))
RoundTrip(address) ==
    Then(remoteRecipientCoderEncode(address),
         LAMBDA encoded :
             Then(remoteRecipientCoderDecode(encoded),
                  LAMBDA decoded : Ok([encoded |-> encoded, decoded |-> decoded])))

CodecRoundTrip ==
    /\ Idle
    /\ \E a \in StacksAddressInputs :
           Handled([op |-> "remoteRecipientCoder", address |-> a], Pure(RoundTrip(a)))

EncodeStacksAddress ==
    /\ Idle
    /\ \E a \in StacksAddressInputs :
           Handled([op |-> "encodeStacksAddress", address |-> a],
                   Pure(Hex(encodeStacksAddress(a))))

PadEthereumAddress ==
    /\ Idle
    /\ \E c \in EthereumAddressInputs :
           Handled([op |-> "padEthereumAddress", address |-> c],
                   Pure(Hex(padEthereumAddress(c))))

ToMicroUSDC ==
    /\ Idle
    /\ \E a \in AmountInputs :
           Handled([op |-> "toMicroUSDC", amount |-> a], Pure(BigInt(toMicroUSDC(a))))

DepositCall(op, a, s, u, al, g) ==
    [op |-> op, amount |-> a, stacksRecipient |-> s, userAddress |-> u,
     allowance |-> al, gas |-> g]

PrepareDepositTransaction ==
    /\ Idle
    /\ \E a \in AmountInputs, s \in RecipientInputs, u \in UserInputs,
          al \in AllowanceAnswers, g \in GasAnswers :
           Handled(DepositCall("prepareDepositTransaction", a, s, u, al, g),
                   prepareDepositTransaction(a, s, u, al, g))

PrepareDepositTool ==
    /\ Idle
    /\ \E a \in AmountInputs, s \in RecipientInputs, u \in UserInputs,
          al \in AllowanceAnswers, g \in GasAnswers :
           Handled(DepositCall("prepareDeposit", a, s, u, al, g),
                   prepareDepositTool(a, s, u, al, g))

WithdrawalCall(op, a, e, s) ==
    [op |-> op, amount |-> a, ethereumRecipient |-> e, stacksAddress |-> s]

PrepareWithdrawalTransaction ==
    /\ Idle
    /\ \E a \in AmountInputs, e \in EthereumAddressInputs, s \in RecipientInputs :
           Handled(WithdrawalCall("prepareWithdrawalTransaction", a, e, s),
                   prepareWithdrawalTransaction(a, e, s))

PrepareWithdrawalTool ==
    /\ Idle
    /\ \E a \in AmountInputs, e \in EthereumAddressInputs, s \in RecipientInputs :
           Handled(WithdrawalCall("prepareWithdrawal", a, e, s),
                   prepareWithdrawalTool(a, e, s))

CheckStatus ==
    /\ Idle
    /\ \E answers \in StatusAnswers :
           Handled([op |-> "checkStatus", chain |-> answers.chain, answers |-> answers],
                   checkStatus(answers.chain, answers))

\* a tools/call request may leave an argument out
HttpAmountInputs == {<<>>, <<"1">>, <<"0", ".", "5">>, <<"1", "0", ".", "5">>}

PrepareDepositHttp ==
    /\ Idle
    /\ \E a \in HttpAmountInputs, s \in RecipientInputs \cup {<<>>},
          u \in UserInputs \cup {<<>>}, al \in AllowanceAnswers, g \in GasAnswers :
           Handled(DepositCall("prepareDepositHttp", a, s, u, al, g),
                   prepareDepositHttp(a, s, u, al, g))

BalanceEthereumInputs == {<<>>, EthUsdc, SubSeq(EthLower, 1, 41)}
BalanceStacksInputs == {<<>>, StacksDeployer, <<"S", "T", "1", "P">>}

GetUSDCBalance ==
    /\ Idle
    /\ \E usdc \in UsdcAnswers :
           Handled([op |-> "getUSDCBalance", usdc |-> usdc], Boxed(getUSDCBalance(usdc)))

GetUSDCxBalance ==
    /\ Idle
    /\ \E usdcx \in UsdcxAnswers :
           Handled([op |-> "getUSDCxBalance", usdcx |-> usdcx],
                   Boxed(getUSDCxBalance(usdcx)))

GetBalances ==
    /\ Idle
    /\ \E e \in BalanceEthereumInputs, s \in BalanceStacksInputs,
          usdc \in UsdcAnswers, usdcx \in UsdcxAnswers :
           Handled([op |-> "getBalances", ethereumAddress |-> e, stacksAddress |-> s,
                    usdc |-> usdc, usdcx |-> usdcx],
                   getBalances(e, s, usdc, usdcx))

\* the answer is delivered and the server is idle again
Respond ==
    /\ ~Idle
    /\ call' = [op |-> "none"]
    /\ ret' = Err("none")
    /\ port' = <<>>
    /\ UNCHANGED <<seen, pages>>

Next ==
    \/ CodecRoundTrip
    \/ EncodeStacksAddress
    \/ PadEthereumAddress
    \/ ToMicroUSDC
    \/ CheckStatus
    \/ GetUSDCBalance
    \/ GetUSDCxBalance
    \/ GetBalances
    \/ PrepareDepositHttp
    \/ PrepareWithdrawalTransaction
    \/ PrepareWithdrawalTool
    \/ PrepareDepositTransaction
    \/ PrepareDepositTool
    \/ Respond

Spec == Init /\ [][Next]_vars

(***************************************************************************)
(* Polling: a caller polls checkStatus again and again for one transaction *)
(* id, so the chain tag stays; every poll is answered by the port afresh.  *)
(* The trackers keep nothing between polls: the state holds the last poll  *)
(* and its answer, which is all a later poll could be compared with.       *)
(***************************************************************************)
PollHeights == {0, 1, 6, 13}

HeightsOf(answers) ==
    IF answers.chain = "ethereum"
    THEN (IF answers.receipt.ok THEN {answers.receipt.v.blockNumber} ELSE {})
           \cup (IF answers.block.ok THEN {answers.block.v} ELSE {})
    ELSE (IF answers.record.ok /\ answers.record.v.ok
          THEN {answers.record.v.block_height} ELSE {})
           \cup (IF answers.tip1.ok THEN {answers.tip1.v} ELSE {})
           \cup (IF answers.tip2.ok THEN {answers.tip2.v} ELSE {})

PollAnswers == {answers \in StatusAnswers : HeightsOf(answers) \subseteq PollHeights}

Polled(answers) ==
    Handled([op |-> "checkStatus", chain |-> answers.chain, answers |-> answers],
            checkStatus(answers.chain, answers))

FirstPoll ==
    /\ Idle
    /\ \E answers \in PollAnswers : Polled(answers)

NextPoll ==
    /\ call.op = "checkStatus"
    /\ \E answers \in PollAnswers :
           /\ answers.chain = call.chain
           /\ Polled(answers)

PollNext ==
    \/ FirstPoll
    \/ NextPoll

PollSpec == Init /\ [][PollNext]_vars

(***************************************************************************)
(* Steady polling: every query of a poll succeeds (a transaction not yet   *)
(* found is an ordinary answer), the chain height never decreases from one *)
(* read to the next, and the record of an included transaction stays as it *)
(* is.  The poller keeps the state it was reported last.                   *)
(***************************************************************************)
HeightsGrow(hs) ==
    /\ \A i \in 1..Len(hs) : hs[i].ok
    /\ \A i \in 1..(Len(hs) - 1) : hs[i].v <= hs[i + 1].v

Steady(before, after) ==
    IF after.chain = "ethereum"
    THEN /\ HeightsGrow(<<before.block, after.block>>)
         /\ before.receipt.ok => after.receipt = before.receipt
    ELSE /\ HeightsGrow(<<before.tip1, before.tip2, after.tip1, after.tip2>>)
         /\ before.record.ok
         /\ after.record.ok
         /\ (before.record.v.ok /\ before.record.v.tx_status # "pending")
               => after.record = before.record

SteadyPoll ==
    /\ call.op = "checkStatus"
    /\ \E answers \in PollAnswers :
           /\ answers.chain = call.chain
           /\ Steady(call.answers, answers)
           /\ call' = [op |-> "checkStatus", chain |-> answers.chain, answers |-> answers]
           /\ ret' = checkStatus(answers.chain, answers).ret
           /\ port' = checkStatus(answers.chain, answers).port
           /\ seen' = ret.v.state
           /\ UNCHANGED pages

SteadyNext ==
    \/ FirstPoll
    \/ SteadyPoll

SteadySpec == Init /\ [][SteadyNext]_vars

(***************************************************************************)
(* StatusWidget.  A refresh works on the status of the render it was       *)
(* created in: the refresh button calls the refreshStatus of the current   *)
(* render, the interval the one of the render in which the effect ran,     *)
(* that is the render in which status.state changed last.  A refresh waits *)
(* a second before it sets the status, so several may be waiting.          *)
(***************************************************************************)
MaxWaiting == 2

Shown(state, confirmations) == [state |-> state, confirmations |-> confirmations]

\* initialStatus, or the default of useState
InitialStatuses ==
    {Shown("pending", 0), Shown("confirming", 3), Shown("attesting", 12),
     Shown("completed", 12), Shown("failed", 0)}

Final(status) == status.state \in {"completed", "failed"}

\* the effect on [status.state]: an interval calling the render's refreshStatus
Interval(status) ==
    IF Final(status) THEN [armed |-> FALSE] ELSE [armed |-> TRUE, status |-> status]

\* what refreshStatus, created in a render with `status`, sets after its wait
refreshStatus(status, current) ==
    IF status.state = "pending" THEN Shown("confirming", 1)
    ELSE IF status.state = "confirming" /\ status.confirmations < 6
    THEN Shown("confirming", status.confirmations + 1)
    ELSE current

MountStatusWidget ==
    /\ ~statusWidget.mounted
    /\ \E chain \in {"ethereum", "stacks"}, initialStatus \in InitialStatuses :
           statusWidget' = [mounted |-> TRUE, chain |-> chain, status |-> initialStatus,
                            refreshing |-> FALSE, waiting |-> {},
                            interval |-> Interval(initialStatus)]
    /\ UNCHANGED <<handlers, depositWidget, mcp, tracker>>

Started(status) ==
    /\ Cardinality(statusWidget.waiting \cup {status}) <= MaxWaiting
    /\ statusWidget' = [statusWidget EXCEPT !.refreshing = TRUE,
                                             !.waiting = @ \cup {status}]
    /\ UNCHANGED <<handlers, depositWidget, mcp, tracker>>

\* the refresh button, disabled while refreshing and in a final state
ClickRefresh ==
    /\ statusWidget.mounted
    /\ ~statusWidget.refreshing
    /\ ~Final(statusWidget.status)
    /\ Started(statusWidget.status)

\* the 15-second interval fires
AutoRefresh ==
    /\ statusWidget.mounted
    /\ statusWidget.interval.armed
    /\ Started(statusWidget.interval.status)

\* a waiting refresh sets the status; the effect runs again when the state changed
RefreshDone ==
    /\ statusWidget.mounted
    /\ \E status \in statusWidget.waiting :
           LET next == refreshStatus(status, statusWidget.status)
           IN  statusWidget' =
                  [statusWidget EXCEPT
                      !.status = next,
                      !.refreshing = FALSE,
                      !.waiting = @ \ {status},
                      !.interval = IF next.state # statusWidget.status.state
                                   THEN Interval(next) ELSE @]
    /\ UNCHANGED <<handlers, depositWidget, mcp, tracker>>

StatusWidgetNext ==
    \/ MountStatusWidget
    \/ ClickRefresh
    \/ AutoRefresh
    \/ RefreshDone

StatusWidgetSpec == Init /\ [][StatusWidgetNext]_vars

(***************************************************************************)
(* DepositWidget with useMetaMask.  The widget is given the descriptor of  *)
(* a prepared deposit; approvalTx is there when requiresApproval is true.  *)
(* approvals counts the approval transactions the wallet returned a hash   *)
(* for, deposits the bridge transactions handed to the wallet and hashes   *)
(* those of them the wallet returned a hash for.                           *)
(***************************************************************************)
MaxSends == 2

\* the effect on [isConnected, transactionData.requiresApproval]
StepWhenConnectedAlways(widget, isConnected) ==
    IF isConnected /\ ~widget.isConnected THEN "deposit" ELSE widget.step

StepWhenConnected(widget, isConnected) ==
    IF isConnected /\ ~widget.isConnected
    THEN IF widget.requiresApproval THEN "approve" ELSE "deposit"
    ELSE widget.step

\* setAddress(accounts[0]) or setAddress(null), and the effect after it
setAddress(widget, isConnected) ==
    [widget EXCEPT !.isConnected = isConnected,
                   !.step = StepWhenConnected(widget, isConnected)]

MountDepositWidget ==
    /\ ~depositWidget.mounted
    /\ \E requiresApproval \in BOOLEAN :
           depositWidget' = [mounted |-> TRUE, requiresApproval |-> requiresApproval,
                             isConnected |-> FALSE, isConnecting |-> FALSE,
                             step |-> "connect", loading |-> FALSE, error |-> "null",
                             waiting |-> {}, approvals |-> 0, deposits |-> 0, hashes |-> 0,
                             timers |-> 0]
    /\ UNCHANGED <<handlers, statusWidget, mcp, tracker>>

\* the wallet reports its accounts: eth_accounts after mount, accountsChanged later
AccountsChanged ==
    /\ depositWidget.mounted
    /\ \E isConnected \in BOOLEAN :
           depositWidget' = setAddress(depositWidget, isConnected)
    /\ UNCHANGED <<handlers, statusWidget, mcp, tracker>>

ClickConnect ==
    /\ depositWidget.mounted
    /\ depositWidget.step = "connect"
    /\ ~depositWidget.isConnecting
    /\ depositWidget' = [depositWidget EXCEPT !.isConnecting = TRUE,
                                               !.waiting = @ \cup {"connect"}]
    /\ UNCHANGED <<handlers, statusWidget, mcp, tracker>>

\* eth_requestAccounts answers with an account, or is rejected
ConnectDone ==
    /\ depositWidget.mounted
    /\ "connect" \in depositWidget.waiting
    /\ \E accepted \in BOOLEAN :
           depositWidget' =
              [(IF accepted THEN setAddress(depositWidget, TRUE) ELSE depositWidget)
                  EXCEPT !.isConnecting = FALSE, !.waiting = @ \ {"connect"}]
    /\ UNCHANGED <<handlers, statusWidget, mcp, tracker>>

\* sendTransaction of the hook: throws without an address, else asks the wallet
Sending(widget, request) ==
    IF ~widget.isConnected THEN [widget EXCEPT !.error = "Wallet not connected"]
    ELSE [widget EXCEPT !.loading = TRUE, !.error = "null",
                        !.waiting = @ \cup {request}]

ClickApprove ==
    /\ depositWidget.mounted
    /\ depositWidget.step = "approve"
    /\ ~depositWidget.loading
    /\ depositWidget' = Sending(depositWidget, "approve")
    /\ UNCHANGED <<handlers, statusWidget, mcp, tracker>>

ApproveDone ==
    /\ depositWidget.mounted
    /\ "approve" \in depositWidget.waiting
    /\ \E accepted \in BOOLEAN :
           depositWidget' =
              [depositWidget EXCEPT
                  !.loading = FALSE,
                  !.waiting = @ \ {"approve"},
                  !.step = IF accepted THEN "deposit" ELSE @,
                  !.error = IF accepted THEN @ ELSE "Approval failed",
                  !.approvals = IF accepted /\ @ < MaxSends THEN @ + 1 ELSE @]
    /\ UNCHANGED <<handlers, statusWidget, mcp, tracker>>

ClickDeposit ==
    /\ depositWidget.mounted
    /\ depositWidget.step = "deposit"
    /\ ~depositWidget.loading
    /\ depositWidget.deposits < MaxSends
    /\ depositWidget' =
          [Sending(depositWidget, "deposit")
              EXCEPT !.deposits = IF depositWidget.isConnected THEN @ + 1 ELSE @]
    /\ UNCHANGED <<handlers, statusWidget, mcp, tracker>>

\* the hash arrives: confirming, and the 3-second timer is set
DepositDone ==
    /\ depositWidget.mounted
    /\ "deposit" \in depositWidget.waiting
    /\ \E accepted \in BOOLEAN :
           depositWidget' =
              [depositWidget EXCEPT
                  !.loading = FALSE,
                  !.waiting = @ \ {"deposit"},
                  !.step = IF accepted THEN "confirming" ELSE @,
                  !.error = IF accepted THEN @ ELSE "Transaction failed",
                  !.hashes = IF accepted THEN @ + 1 ELSE @,
                  !.timers = IF accepted THEN @ + 1 ELSE @]
    /\ UNCHANGED <<handlers, statusWidget, mcp, tracker>>

SuccessTimer ==
    /\ depositWidget.mounted
    /\ depositWidget.timers > 0
    /\ depositWidget' = [depositWidget EXCEPT !.step = "success", !.timers = @ - 1]
    /\ UNCHANGED <<handlers, statusWidget, mcp, tracker>>

DepositWidgetNext ==
    \/ MountDepositWidget
    \/ AccountsChanged
    \/ ClickConnect
    \/ ConnectDone
    \/ ClickApprove
    \/ ApproveDone
    \/ ClickDeposit
    \/ DepositDone
    \/ SuccessTimer

DepositWidgetSpec == Init /\ [][DepositWidgetNext]_vars

(***************************************************************************)
(* POST /mcp.  Each request writes the SSE headers, then races the request *)
(* handler against a 5-second timer.  mcp holds the responses: how often   *)
(* the headers were written, the data events written, whether the response *)
(* was ended, and whether the route's function ended in a throw.           *)
(***************************************************************************)
MaxRequests == 3

\* res.writeHead: refused once the headers are out
writeHead(res) ==
    IF res.heads > 0 THEN Err("ERR_HTTP_HEADERS_SENT")
    ELSE Ok([res EXCEPT !.heads = @ + 1])

\* res.write(`data: ...`); res.end()
writeEvent(res) == [res EXCEPT !.events = @ + 1, !.ended = TRUE, !.phase = "ended"]

\* the catch block: headers again, the error event, end
errorPath(res) ==
    IF writeHead(res).ok THEN writeEvent(writeHead(res).v)
    ELSE [res EXCEPT !.phase = "thrown"]

Post ==
    /\ Len(mcp) < MaxRequests
    /\ mcp' = Append(mcp, [phase |-> "racing", handler |-> "running", timer |-> "armed",
                           heads |-> 1, events |-> 0, ended |-> FALSE])
    /\ UNCHANGED <<handlers, statusWidget, depositWidget, tracker>>

\* handleMCPRequest resolves or rejects; the race may be over already
HandlerSettles ==
    /\ \E i \in 1..Len(mcp), outcome \in {"resolved", "rejected"} :
           /\ mcp[i].handler = "running"
           /\ LET res == [mcp[i] EXCEPT !.handler = outcome]
              IN  mcp' = [mcp EXCEPT ![i] =
                            IF res.phase # "racing" THEN res
                            ELSE IF outcome = "resolved" THEN writeEvent(res)
                            ELSE errorPath(res)]
    /\ UNCHANGED <<handlers, statusWidget, depositWidget, tracker>>

\* the 5-second timer rejects timeoutPromise
Timeout ==
    /\ \E i \in 1..Len(mcp) :
           /\ mcp[i].timer = "armed"
           /\ LET res == [mcp[i] EXCEPT !.timer = "fired"]
              IN  mcp' = [mcp EXCEPT ![i] =
                            IF res.phase # "racing" THEN res ELSE errorPath(res)]
    /\ UNCHANGED <<handlers, statusWidget, depositWidget, tracker>>

McpNext ==
    \/ Post
    \/ HandlerSettles
    \/ Timeout

McpSpec == Init /\ [][McpNext]_vars

(***************************************************************************)
(* trackTransaction of the bridge page.  Each tracked transaction has a    *)
(* check scheduled by setTimeout, or running, or neither.                  *)
(***************************************************************************)
MaxTracked == 2

Outcomes == {"undefined", "pending", "confirming", "attesting", "completed", "failed", "threw"}

\* whether a check that ended with `outcome` called setTimeout(checkStatus, 10000)
Rescheduled(outcome) == outcome \notin {"completed", "failed", "threw"}

TrackTransaction ==
    /\ Len(tracker) < MaxTracked
    /\ \E network \in {"ethereum", "stacks"} :
           tracker' = Append(tracker, [network |-> network, scheduled |-> TRUE,
                                       checking |-> FALSE, last |-> "none"])
    /\ UNCHANGED <<handlers, statusWidget, depositWidget, mcp>>

\* the timeout fires: checkStatus calls the tool
CheckStarts ==
    /\ \E i \in 1..Len(tracker) :
           /\ tracker[i].scheduled
           /\ tracker' = [tracker EXCEPT ![i].scheduled = FALSE, ![i].checking = TRUE]
    /\ UNCHANGED <<handlers, statusWidget, depositWidget, mcp>>

\* the tool call answers with a status, or throws
CheckEnds ==
    /\ \E i \in 1..Len(tracker), outcome \in Outcomes :
           /\ tracker[i].checking
           /\ tracker' = [tracker EXCEPT ![i].checking = FALSE,
                                          ![i].last = outcome,
                                          ![i].scheduled = Rescheduled(outcome)]
    /\ UNCHANGED <<handlers, statusWidget, depositWidget, mcp>>

TrackerNext ==
    \/ TrackTransaction
    \/ CheckStarts
    \/ CheckEnds

TrackerSpec == Init /\ [][TrackerNext]_vars

(***************************************************************************)
(* Properties.  Each reads the call handled last, its result and its port  *)
(* calls.                                                                  *)
(***************************************************************************)
Deposits == {"prepareDepositTransaction", "prepareDeposit"}
Withdrawals == {"prepareWithdrawalTransaction", "prepareWithdrawal"}

\* the amount of the bridge call of a deposit descriptor, the amount burnt by a
\* withdrawal descriptor, the bytes of a 0x text
DepositAmount(descriptor) == descriptor.data.args[1]
BurnAmount(descriptor) == descriptor.functionArgs[1].value
BytesOf(hex) == HexDigitsToBytes(Drop(hex, 2)).v

\* a plain decimal: digits, or digits with a point, at least one digit
IsDecimal(amount) ==
    LET rest == Drop(amount, Len(DigitRun(amount)))
    IN  /\ rest = <<>>
           \/ (Head(rest) = "." /\ Len(FractionDigits(rest)) = Len(rest) - 1)
        /\ Len(DigitRun(amount)) + Len(FractionDigits(rest)) > 0

IntegerDigits(amount) == DigitRun(amount)
DecimalDigits(amount) == FractionDigits(Drop(amount, Len(DigitRun(amount))))

\* the decimal as minor units, when it has at most Decimals fraction digits
ExactMinorUnits(amount) ==
    DigitsToNat(IntegerDigits(amount)) * (10 ^ Decimals)
      + DigitsToNat(DecimalDigits(amount)) * (10 ^ (Decimals - Len(DecimalDigits(amount))))

\* the decimal is less than whole.cents, compared digit by digit
DecimalBelow(amount, whole, cents) ==
    LET n    == IF Len(DecimalDigits(amount)) > Len(cents)
                THEN Len(DecimalDigits(amount)) ELSE Len(cents)
        x    == [i \in 1..n |-> IF i <= Len(DecimalDigits(amount))
                                THEN DigitVal(DecimalDigits(amount)[i]) ELSE 0]
        y    == [i \in 1..n |-> IF i <= Len(cents) THEN DigitVal(cents[i]) ELSE 0]
        diff == {i \in 1..n : x[i] # y[i]}
    IN  \/ DigitsToNat(IntegerDigits(amount)) < whole
        \/ /\ DigitsToNat(IntegerDigits(amount)) = whole
           /\ diff # {}
           /\ LET first == CHOOSE i \in diff : \A j \in diff : i <= j
              IN  x[first] < y[first]

\* the c32 spelling that addressToString writes
Canonical(address) == <<address[1]>> \o c32normalize(Tail(address))

C3_EncodingLayout ==
    /\ (call.op = "encodeStacksAddress" /\ ret.ok)
           => /\ Len(ret.v.hex) = 66
              /\ SubSeq(ret.v.hex, 1, 2) = <<"0", "x">>
              /\ SubSeq(BytesOf(ret.v.hex), 1, 11) = Zeros(11)
              /\ BytesOf(ret.v.hex)[12] = createAddress(call.address).v.version
              /\ BytesToHexDigits(SubSeq(BytesOf(ret.v.hex), 13, 32))
                    = createAddress(call.address).v.hash160
              /\ BytesOf(ret.v.hex) = remoteRecipientCoderEncode(call.address).v
    /\ (call.op = "encodeStacksAddress" /\ call.address = StacksDeployer)
           => ret = Ok([hex |-> toHex(Zeros(11) \o <<26>> \o Hash1)])
    /\ (call.op \in Deposits /\ ret.ok)
           => /\ ret.v.data.functionName = "depositToRemote"
              /\ Len(BytesOf(ret.v.data.args[3])) = 32
              /\ SubSeq(BytesOf(ret.v.data.args[3]), 1, 11) = Zeros(11)
              /\ BytesOf(ret.v.data.args[3])[12]
                    = createAddress(call.stacksRecipient).v.version
              /\ BytesToHexDigits(SubSeq(BytesOf(ret.v.data.args[3]), 13, 32))
                    = createAddress(call.stacksRecipient).v.hash160

C3_Witness ==
    /\ call.op \in Deposits
    /\ ret.ok
    /\ call.stacksRecipient = StacksDeployer
    /\ BytesOf(ret.v.data.args[3]) = Zeros(11) \o <<26>> \o Hash1

\* C4: every withdrawal descriptor carries one post-condition, by which the
\* source identity sends exactly the amount that is the amount argument of
\* the burn call ("5.00" gives 5000000 in both), and no approval step.
C4_PostConditionIsBurnAmount ==
    (call.op \in Withdrawals /\ ret.ok)
        => /\ ret.v.functionName = "burn"
           /\ Len(ret.v.postConditions) = 1
           /\ ret.v.postConditions[1].principal = call.stacksAddress
           /\ ret.v.postConditions[1].condition = "eq"
           /\ ret.v.postConditions[1].amount = BurnAmount(ret.v)
           /\ ret.v.functionArgs[1].type = "uint"
           /\ {"approvalTx", "requiresApproval"} \cap DOMAIN ret.v = {}
           /\ call.amount = <<"5", ".", "0", "0">> => BurnAmount(ret.v) = 5000000

C4_Witness ==
    /\ call.op \in Withdrawals
    /\ ret.ok
    /\ call.amount = <<"5", ".", "0", "0">>
    /\ ret.v.postConditions[1].amount = 5000000

\* C5, as the specification states it: the conversion to minor units refuses
\* a decimal of more than 6 fraction digits and never rounds or truncates
\* it; a decimal of at most 6 fraction digits converts exactly; on the
\* deposit path and on the withdrawal path alike.
C5_ExcessPrecisionRejected ==
    /\ (call.op = "toMicroUSDC" /\ IsDecimal(call.amount))
           => IF Len(DecimalDigits(call.amount)) > Decimals THEN ~ret.ok
              ELSE ret = Ok([bigint |-> ExactMinorUnits(call.amount)])
    /\ (call.op \in Withdrawals /\ IsDecimal(call.amount) /\ ret.ok)
           => /\ Len(DecimalDigits(call.amount)) <= Decimals
              /\ BurnAmount(ret.v) = ExactMinorUnits(call.amount)
    /\ (call.op \in Deposits /\ IsDecimal(call.amount) /\ ret.ok)
           => /\ Len(DecimalDigits(call.amount)) <= Decimals
              /\ DepositAmount(ret.v) = ExactMinorUnits(call.amount)

\* C6: in every deposit descriptor requiresApproval is true exactly when the
\* allowance read is strictly less than the amount of the deposit: an
\* allowance equal to the amount gives false, one minor unit less gives true.
C6_RequiresApprovalIsStrict ==
    (call.op \in Deposits /\ ret.ok)
        => /\ ret.v.requiresApproval <=> call.allowance.v < DepositAmount(ret.v)
           /\ call.allowance.v = DepositAmount(ret.v) => ~ret.v.requiresApproval
           /\ call.allowance.v = DepositAmount(ret.v) - 1 => ret.v.requiresApproval
           /\ call.amount = <<"1">> => DepositAmount(ret.v) = 1000000

C6_Witness ==
    /\ call.op \in Deposits
    /\ ret.ok
    /\ call.amount = <<"1">>
    /\ call.allowance.v = 1000000
    /\ ~ret.v.requiresApproval

\* C7: in every deposit descriptor the approval step is present exactly when
\* requiresApproval is true; it then targets the asset contract with an
\* approve call whose spender is the bridge contract and whose amount is the
\* amount of the bridge call.
C7_ApprovalStep ==
    (call.op \in Deposits /\ ret.ok)
        => /\ ret.v.requiresApproval <=> ret.v.approvalTx # Undefined
           /\ ret.v.to = XRESERVE_CONTRACT
           /\ ret.v.requiresApproval
                 => /\ ret.v.approvalTx.to = USDC_CONTRACT
                    /\ ret.v.approvalTx.data.functionName = "approve"
                    /\ ret.v.approvalTx.data.args
                          = <<XRESERVE_CONTRACT, DepositAmount(ret.v)>>

C7_Witness ==
    /\ call.op \in Deposits
    /\ ret.ok
    /\ ret.v.requiresApproval
    /\ ret.v.approvalTx.data.args = <<XRESERVE_CONTRACT, 5000000>>

\* C8, as the specification states it: a deposit request for less than 1.0
\* unit fails with the below-minimum error, no call to the chain query port
\* (allowance read, gas estimation) having been made.  The request is
\* otherwise well formed: both its addresses are valid.
C8_BelowMinimumDepositFails ==
    (/\ call.op \in Deposits
     /\ isValidStacksAddress(call.stacksRecipient)
     /\ isValidEthereumAddress(call.userAddress)
     /\ IsDecimal(call.amount)
     /\ DecimalBelow(call.amount, 1, <<>>))
        => /\ ret = Err("Minimum deposit is 1 USDC on testnet")
           /\ port = <<>>

\* C9, as the specification states it: a withdrawal of exactly 4.80 succeeds,
\* every smaller amount fails, before any call to the chain query port, and
\* every descriptor burns at least 4800000 minor units.
C9_WithdrawalMinimum ==
    /\ (call.op \in Withdrawals /\ call.amount = <<"4", ".", "8", "0">>
          /\ isValidEthereumAddress(call.ethereumRecipient)
          /\ isValidStacksAddress(call.stacksAddress))
           => ret.ok
    /\ (call.op \in Withdrawals /\ IsDecimal(call.amount)
          /\ DecimalBelow(call.amount, 4, <<"8", "0">>))
           => /\ ~ret.ok
              /\ port = <<>>
    /\ (call.op \in Withdrawals /\ ret.ok) => BurnAmount(ret.v) >= MIN_WITHDRAWAL

\* C10: checkStatus never reports the state completed, whatever the chain
\* answers; from the confirmation threshold on it reports attesting.
C10_NeverCompleted ==
    call.op = "checkStatus" =>
        /\ ret.ok
        /\ ret.v.state \in {"pending", "confirming", "attesting", "failed"}
        /\ (/\ call.chain = "ethereum"
            /\ call.answers.receipt.ok /\ call.answers.block.ok
            /\ call.answers.receipt.v.status = "success"
            /\ call.answers.block.v - call.answers.receipt.v.blockNumber >= ETH_CONFIRMATIONS)
              => ret.v.state = "attesting"
        /\ (/\ call.chain = "stacks"
            /\ call.answers.record.ok /\ call.answers.tip1.ok /\ call.answers.tip2.ok
            /\ call.answers.record.v.ok
            /\ call.answers.record.v.tx_status = "success"
            /\ call.answers.record.v.block_height # 0
            /\ call.answers.tip1.v - call.answers.record.v.block_height + 1
                  >= STACKS_CONFIRMATIONS)
              => ret.v.state = "attesting"

C10_Witness ==
    /\ call.op = "checkStatus"
    /\ call.chain = "ethereum"
    /\ call.answers.receipt.ok /\ call.answers.block.ok
    /\ call.answers.receipt.v.status = "success"
    /\ call.answers.block.v - call.answers.receipt.v.blockNumber > ETH_CONFIRMATIONS
    /\ ret.v.state = "attesting"

\* C11, as the specification states it: across the polls of one transaction
\* id the tracker never returns a confirmation count lower than the one it
\* returned on the poll before, unless the poll ends in an error raised
\* instead of a status.
C11_ConfirmationsNeverRegress ==
    [][(call.op = "checkStatus" /\ call'.op = "checkStatus")
          => (~ret'.ok \/ ret'.v.confirmations >= ret.v.confirmations)]_vars

\* C12, as the specification states it: once a poll has reported failed,
\* every later poll of the same transaction id reports failed, whatever the
\* port answers.
C12_FailedIsTerminal ==
    [][(call.op = "checkStatus" /\ ret.v.state = "failed" /\ call'.op = "checkStatus")
          => (ret'.ok /\ ret'.v.state = "failed")]_vars

\* what the port answered to a poll
EthIncluded ==
    /\ call.chain = "ethereum"
    /\ call.answers.receipt.ok
    /\ call.answers.receipt.v.status = "success"
StacksFound ==
    /\ call.chain = "stacks"
    /\ call.answers.record.ok
    /\ call.answers.record.v.ok
StacksIncluded ==
    /\ StacksFound
    /\ call.answers.record.v.tx_status = "success"
    /\ call.answers.record.v.block_height # 0
StacksAborted ==
    /\ StacksFound
    /\ call.answers.record.v.tx_status \in {"abort_by_response", "abort_by_post_condition"}
Threshold == IF call.chain = "ethereum" THEN ETH_CONFIRMATIONS ELSE STACKS_CONFIRMATIONS

\* C13, as the specification states it: for a successfully included
\* transaction checkStatus reports confirming while the confirmation count
\* it reports is below the chain's threshold and attesting once the count
\* reaches it; the account chain's threshold is lower than the contract
\* chain's.
C13_StateFollowsConfirmations ==
    /\ STACKS_CONFIRMATIONS < ETH_CONFIRMATIONS
    /\ (/\ call.op = "checkStatus"
        /\ \/ EthIncluded /\ call.answers.block.ok
           \/ StacksIncluded /\ call.answers.tip1.ok /\ call.answers.tip2.ok)
          => /\ ret.ok
             /\ ret.v.state = IF ret.v.confirmations < Threshold
                              THEN "confirming" ELSE "attesting"

\* C14, as the specification states it: on both chains a status in state
\* confirming carries the ETA (threshold - confirmations) times the chain's
\* average block time, and a status in state attesting carries the chain's
\* fixed attestation ETA.
C14_EtaByState ==
    (call.op = "checkStatus" /\ ret.ok)
        => /\ ret.v.state = "confirming"
                => ret.v.eta =
                      IF call.chain = "ethereum"
                      THEN Eta("seconds",
                               (ETH_CONFIRMATIONS - ret.v.confirmations) * ETH_BLOCK_SECONDS)
                      ELSE Eta("minutes",
                               (STACKS_CONFIRMATIONS - ret.v.confirmations)
                                  * STACKS_BLOCK_MINUTES)
           /\ ret.v.state = "attesting"
                => ret.v.eta =
                      IF call.chain = "ethereum"
                      THEN Eta("~15 minutes (attestation in progress)", 0)
                      ELSE Eta("~25 minutes (Circle attestation in progress)", 0)

\* C15: checkStatus reports failed with a failure reason whenever the chain
\* record shows a revert or an abort, and pending without a failure reason
\* whenever the transaction is not found on the chain.
C15_FailureClassification ==
    call.op = "checkStatus" =>
        /\ ret.ok
        /\ (/\ call.chain = "ethereum"
            /\ call.answers.receipt.ok
            /\ call.answers.receipt.v.status = "reverted")
              => /\ ret.v.state = "failed"
                 /\ ret.v.errorMessage = <<"Transaction failed on Ethereum">>
        /\ StacksAborted
              => /\ ret.v.state = "failed"
                 /\ Len(ret.v.errorMessage) = 2
                 /\ ret.v.errorMessage[2] \in {call.answers.record.v.repr, "Unknown error"}
                 /\ ret.v.errorMessage[2] # ""
        /\ (call.chain = "ethereum" /\ ~call.answers.receipt.ok)
              => /\ ret.v.state = "pending"
                 /\ ret.v.errorMessage = <<>>
        /\ (call.chain = "stacks" /\ call.answers.record.ok /\ ~call.answers.record.v.ok)
              => /\ ret.v.state = "pending"
                 /\ ret.v.errorMessage = <<>>

C15_Witness ==
    /\ call.op = "checkStatus"
    /\ StacksAborted
    /\ ret.v.state = "failed"
    /\ ret.v.errorMessage = <<"Transaction failed: ", "(err u1)">>

\* C16, as the specification states it: a port failure during checkStatus
\* (the block height lookup, the transaction record lookup or a chain tip
\* lookup erroring out) is surfaced as an error that differs from an
\* ordinary pending status, and a transaction already included in a block
\* is never reported pending with zero confirmations because a lookup failed.
C16_QueryFailureSurfaced ==
    call.op = "checkStatus" =>
        /\ (\/ EthIncluded /\ ~call.answers.block.ok
            \/ call.chain = "stacks" /\ ~call.answers.record.ok
            \/ StacksIncluded /\ (~call.answers.tip1.ok \/ ~call.answers.tip2.ok))
              => (~ret.ok \/ ret.v.errorMessage # <<>>)
        /\ (\/ EthIncluded /\ ~call.answers.block.ok
            \/ StacksIncluded /\ (~call.answers.tip1.ok \/ ~call.answers.tip2.ok))
              => ~(ret.ok /\ ret.v.state = "pending" /\ ret.v.confirmations = 0)

\* C17, as the specification states it: on either chain a balance read that
\* failed returns a result that differs from the result returned for a
\* balance of zero, from the reader itself and in what getBalances returns.
C17_FailedReadDistinguishable ==
    /\ (call.op = "getUSDCBalance" /\ ~call.usdc.ok)
          => ret # Boxed(getUSDCBalance(Ok(0))).ret
    /\ (call.op = "getUSDCxBalance" /\ ~call.usdcx.ok)
          => ret # Boxed(getUSDCxBalance(Ok([type |-> "ok", value |-> 0]))).ret
    /\ (/\ call.op = "getBalances"
        /\ isValidEthereumAddress(call.ethereumAddress)
        /\ ~call.usdc.ok)
          => (~ret.ok \/ ret.v.usdc # Str(<<"0", ".", "0", "0">>))
    /\ (/\ call.op = "getBalances"
        /\ isValidStacksAddress(call.stacksAddress)
        /\ ~call.usdcx.ok)
          => (~ret.ok \/ ret.v.usdcx # Str(<<"0", ".", "0", "0", "0", "0", "0", "0">>))

\* C18: when getBalances is called with both addresses, both balances are
\* read and returned whatever the other read answered: a failed read of one
\* never prevents the other from being read and returned.
C18_IndependentReads ==
    (/\ call.op = "getBalances"
     /\ isValidEthereumAddress(call.ethereumAddress)
     /\ isValidStacksAddress(call.stacksAddress))
        => /\ port = <<"readContract", "fetchCallReadOnlyFunction">>
           /\ ret.ok
           /\ call.usdc.ok => ret.v.usdc = Str(toFixed(DivMillion(call.usdc.v), 2))
           /\ call.usdcx.ok
                => ret.v.usdcx =
                      Str(fromMicroUSDC(MicroBalance(cvToString(call.usdcx.v))))

C18_Witness ==
    /\ call.op = "getBalances"
    /\ call.ethereumAddress = EthUsdc
    /\ call.stacksAddress = StacksDeployer
    /\ ~call.usdc.ok
    /\ call.usdcx = Ok([type |-> "ok", value |-> 5000000])
    /\ port = <<"readContract", "fetchCallReadOnlyFunction">>
    /\ ret.ok
    /\ ret.v.usdcx = Str(<<"5", ".", "0", "0", "0", "0", "0", "0">>)

\* C19, as the specification states it: whenever a tool is called with an
\* input that fails validation, or a chain query it makes fails, the tool
\* returns an error result.
C19_FailuresReturnErrors ==
    /\ call.op = "prepareDeposit"
          => ((\/ ~isValidStacksAddress(call.stacksRecipient)
               \/ ~isValidEthereumAddress(call.userAddress)
               \/ port = <<"readContract">> /\ ~call.allowance.ok
               \/ port = <<"readContract", "estimateGas">> /\ ~call.gas.ok)
                 => ~ret.ok)
    /\ call.op = "prepareWithdrawal"
          => ((\/ ~isValidEthereumAddress(call.ethereumRecipient)
               \/ ~isValidStacksAddress(call.stacksAddress))
                 => ~ret.ok)
    /\ call.op = "checkStatus"
          => ((\/ EthIncluded /\ ~call.answers.block.ok
               \/ call.chain = "stacks" /\ ~call.answers.record.ok
               \/ StacksIncluded /\ (~call.answers.tip1.ok \/ ~call.answers.tip2.ok))
                 => ~ret.ok)
    /\ call.op = "getBalances"
          => ((\/ call.ethereumAddress # <<>> /\ ~isValidEthereumAddress(call.ethereumAddress)
               \/ call.stacksAddress # <<>> /\ ~isValidStacksAddress(call.stacksAddress)
               \/ isValidEthereumAddress(call.ethereumAddress) /\ ~call.usdc.ok
               \/ isValidStacksAddress(call.stacksAddress) /\ ~call.usdcx.ok)
                 => ~ret.ok)

\* C20: when the gas estimation of a deposit fails, the preparation returns
\* no descriptor but the estimation's error, and every descriptor returned
\* carries the gas value the port answered.
C20_GasFromPort ==
    call.op \in Deposits
        => /\ (port = <<"readContract", "estimateGas">> /\ ~call.gas.ok)
                => (~ret.ok /\ ret.err = call.gas.err)
           /\ ret.ok => (call.gas.ok /\ ret.v.estimatedGas = call.gas.v)

C20_Witness ==
    /\ call.op = "prepareDeposit"
    /\ port = <<"readContract", "estimateGas">>
    /\ ~call.gas.ok
    /\ ret = Err("execution reverted")

\* C21, as the specification states it: on the HTTP server a prepareDeposit
\* call with valid addresses, an amount of at least 1 and succeeding chain
\* queries returns a success result with the widget URL, not the
\* 'Bridge Preparation Failed' result.
C21_HttpDepositSucceeds ==
    (/\ call.op = "prepareDepositHttp"
     /\ isValidStacksAddress(call.stacksRecipient)
     /\ isValidEthereumAddress(call.userAddress)
     /\ isAddress(call.userAddress)
     /\ IsDecimal(call.amount)
     /\ ~DoubleLess(parseFloat(call.amount), DOne)
     /\ call.allowance.ok
     /\ call.gas.ok)
        => ret.ok

\* the answer of an estimation that executes depositToRemote with the sender
\* as account: the bridge call pulls `value` of the asset from the sender,
\* and beyond the sender's allowance the execution reverts
ExecutedAsSender(allowance, value, gas) == allowance < value => ~gas.ok

\* C22, as the specification states it: when the allowance is strictly less
\* than the amount and the gas estimation executes the bridge call for the
\* real sender, prepareDeposit returns a descriptor with requiresApproval
\* true and an approval step, not an estimation error.
C22_DescriptorWhenApprovalNeeded ==
    (/\ call.op \in Deposits
     /\ port = <<"readContract", "estimateGas">>
     /\ call.allowance.v < parseUnits(call.amount).v
     /\ ExecutedAsSender(call.allowance.v, parseUnits(call.amount).v, call.gas))
        => /\ ret.ok
           /\ ret.v.requiresApproval
           /\ ret.v.approvalTx # Undefined

\* C24, as the specification states it: every status the Stacks tracker
\* returns is consistent in itself, whatever the two chain tip reads of the
\* poll answered: its state is attesting exactly when its confirmations are
\* at least 6, and confirming with a block height only when they are below 6.
C24_StacksStatusConsistent ==
    (call.op = "checkStatus" /\ call.chain = "stacks" /\ ret.ok)
        => /\ ret.v.state = "attesting" <=> ret.v.confirmations >= STACKS_CONFIRMATIONS
           /\ (ret.v.state = "confirming" /\ StacksIncluded)
                 => ret.v.confirmations < STACKS_CONFIRMATIONS

\* C25, as the specification states it: the confirmations of every status
\* either tracker returns are a non-negative integer, whatever block height
\* of the transaction and current height the port answered.
C25_ConfirmationsNonNegative ==
    (call.op = "checkStatus" /\ ret.ok) => ret.v.confirmations >= 0

Order == <<"pending", "confirming", "attesting">>
Backward(earlier, later) ==
    /\ IndexOf(Order, earlier) >= 0
    /\ IndexOf(Order, later) >= 0
    /\ IndexOf(Order, later) < IndexOf(Order, earlier)

\* C23: while every chain query succeeds, the chain height never decreases
\* and the record of an included transaction does not change, the state a
\* poll reports is never behind the state the previous poll of the same
\* transaction reported, in the order pending, confirming, attesting.
C23_StatesNeverMoveBackward ==
    (call.op = "checkStatus" /\ seen # "none") => ~Backward(seen, ret.v.state)

C23_Witness ==
    /\ call.op = "checkStatus"
    /\ call.chain = "stacks"
    /\ seen = "confirming"
    /\ ret.v.state = "attesting"
    /\ ret.v.confirmations = 13

\* C26, as the specification states it: whatever the interleaving of
\* refresh clicks and of the auto-refresh interval, the confirmations the
\* StatusWidget displays never decrease and the state it displays never
\* moves backward.
C26_DisplayNeverRegresses ==
    [][(statusWidget.mounted /\ statusWidget'.mounted)
          => /\ statusWidget'.status.confirmations >= statusWidget.status.confirmations
             /\ ~Backward(statusWidget.status.state, statusWidget'.status.state)]_vars

\* C27: in a DepositWidget whose descriptor requires approval, no bridge
\* transaction is handed to the wallet before an approval transaction was
\* sent and the wallet returned its hash.
C27_ApprovalBeforeDeposit ==
    (depositWidget.mounted /\ depositWidget.requiresApproval)
        => /\ depositWidget.deposits > 0 => depositWidget.approvals > 0
           /\ depositWidget.step \in {"deposit", "confirming", "success"}
                 => depositWidget.approvals > 0

C27_Witness ==
    /\ depositWidget.mounted
    /\ depositWidget.requiresApproval
    /\ depositWidget.approvals = 1
    /\ depositWidget.deposits = 1
    /\ depositWidget.step = "confirming"

\* C28, as the specification states it: once the wallet has taken the bridge
\* transaction of a DepositWidget, the widget hands it no further one, and
\* once its step is confirming or success it never goes back to approve or
\* deposit.
C28_DepositSentOnce ==
    [][(depositWidget.mounted /\ depositWidget'.mounted)
          => /\ depositWidget.hashes > 0
                   => depositWidget'.deposits = depositWidget.deposits
             /\ depositWidget.step \in {"confirming", "success"}
                   => depositWidget'.step \notin {"approve", "deposit"}]_vars

\* C29, as the specification states it: for every POST /mcp request whose
\* race is over, by the handler finishing or by the timeout, exactly one SSE
\* data event was written and the response was ended.
C29_OneEventThenEnd ==
    \A i \in 1..Len(mcp) :
        mcp[i].phase # "racing" => (mcp[i].events = 1 /\ mcp[i].ended)

\* C30, as the specification states it: after a status check that did not
\* report completed or failed, a check that threw included, a further check
\* is scheduled; after one that reported completed or failed none is.
C30_PollingContinues ==
    \A i \in 1..Len(tracker) :
        (tracker[i].last # "none" /\ ~tracker[i].checking)
            => (tracker[i].scheduled <=> tracker[i].last \notin {"completed", "failed"})

====
